---------------------------- MODULE Spec2Model ----------------------------
(***************************************************************************)
(* Currency display formatting of the dashboard:                           *)
(*   ui/litellm-dashboard/src/utils/currencyUtils.ts                       *)
(*   ui/litellm-dashboard/src/components/UsagePage/utils/value_formatters.tsx *)
(*                                                                         *)
(* A JavaScript string is a sequence of one-character strings.  A          *)
(* JavaScript number is a decimal [m, e] standing for m / 10^e; an input   *)
(* number is a double whose value is exactly that decimal (Exact), and     *)
(* where binary rounding of an arithmetic result can be seen in the output *)
(* (a rounding tie) the sign of the rounding error is either computed from *)
(* the binary expansion (DoubleCmp) or left open (Errs).                   *)
(***************************************************************************)
EXTENDS Integers, Sequences, FiniteSets

VARIABLES
    kind,    \* "str" or "num": what the caller holds
    str,     \* the caller's string argument (<<>> when kind = "num")
    num,     \* the caller's number argument
    dec,     \* the caller's decimals argument, or Omitted
    pc,      \* "start", then the name of the exported function that returned
    result,  \* what that function returned
    prev     \* what the call before it returned

vars == <<kind, str, num, dec, pc, result, prev>>

-----------------------------------------------------------------------------
(* Bounds of the enumerated inputs *)

MaxLen == 5          \* longest enumerated input string
MaxMant == 100       \* input numbers are k * step + offset, k <= MaxMant
MaxScale == 2        \* most fractional digits of an input number
MaxDecimals == 3     \* largest decimals argument

-----------------------------------------------------------------------------
(* Characters *)

RUBLE == "₽"
NBSP == "U+00A0"     \* the no-break space ru-RU groups digits with

DigitChars == <<"0", "1", "2", "3", "4", "5", "6", "7", "8", "9">>

IsDigit(c) == \E i \in 1..10 : DigitChars[i] = c

DigitVal(c) == (CHOOSE i \in 1..10 : DigitChars[i] = c) - 1

RECURSIVE Pow10(_)
Pow10(n) == IF n = 0 THEN 1 ELSE 10 * Pow10(n - 1)

RECURSIVE Pow5(_)
Pow5(n) == IF n = 0 THEN 1 ELSE 5 * Pow5(n - 1)

Abs(i) == IF i < 0 THEN -i ELSE i

\* the decimal digits of a natural number
RECURSIVE NatDigits(_)
NatDigits(n) ==
    IF n < 10 THEN <<DigitChars[n + 1]>>
    ELSE Append(NatDigits(n \div 10), DigitChars[(n % 10) + 1])

\* the natural number a digit string denotes
RECURSIVE DigitsNat(_)
DigitsNat(s) ==
    IF s = <<>> THEN 0
    ELSE 10 * DigitsNat(SubSeq(s, 1, Len(s) - 1)) + DigitVal(s[Len(s)])

\* n as exactly w digits, zero-padded on the left
RECURSIVE PadDigits(_, _)
PadDigits(n, w) ==
    IF w = 0 THEN <<>>
    ELSE Append(PadDigits(n \div 10, w - 1), DigitChars[(n % 10) + 1])

-----------------------------------------------------------------------------
(* Numbers *)

\* err: the sign of |double| - |m / 10^e|, 0 unless arithmetic rounded it
Num(m, e) == [m |-> m, e |-> e, err |-> 0]

\* the same number without trailing fractional zeros
RECURSIVE Norm(_)
Norm(x) ==
    IF x.e > 0 /\ x.m % 10 = 0 THEN Norm(Num(x.m \div 10, x.e - 1)) ELSE x

\* the decimal is a dyadic rational: a double holds it without error
Exact(x) == x.m % Pow5(x.e) = 0

\* x >= n, for an integer n
Geq(x, n) == x.m >= n * Pow10(x.e)

IsZero(x) == x.m = 0

\* number / 1000, number / 1000000
Div(x, k) == Num(x.m, x.e + k)

\* Signs the binary rounding error of an arithmetic result can have
Errs == {-1, 0, 1}

-----------------------------------------------------------------------------
(* Number.prototype.toString, for a magnitude the model reaches            *)
(* (1e-6 <= |x| < 1e21, so never the exponent form): the shortest decimal  *)
(* that reads back as the double.                                          *)

NumberToString(x) ==
    LET n == Norm(x)
        a == Abs(n.m)
        ip == NatDigits(a \div Pow10(n.e))
        fp == IF n.e = 0 THEN <<>>
              ELSE <<".">> \o PadDigits(a % Pow10(n.e), n.e)
    IN  (IF n.m < 0 THEN <<"-">> ELSE <<>>) \o ip \o fp

(* The sign of fl(X / D) - X / D, where fl rounds the quotient of the two  *)
(* integers to the nearest double (53 significant bits, ties to even):     *)
(* long division in base 2.  r is the remainder so far, have the number of *)
(* significant bits produced, last the last bit.                           *)
RECURSIVE DoubleBits(_, _, _, _)
DoubleBits(r, D, have, last) ==
    IF r = 0 THEN 0
    ELSE IF have = 53 THEN
        IF 2 * r > D THEN 1
        ELSE IF 2 * r < D THEN -1
        ELSE IF last = 1 THEN 1 ELSE -1
    ELSE LET b == IF 2 * r >= D THEN 1 ELSE 0
         IN  DoubleBits(2 * r - b * D, D,
                        IF have = 0 /\ b = 0 THEN 0 ELSE have + 1, b)

RECURSIVE BitLen(_)
BitLen(n) == IF n = 0 THEN 0 ELSE 1 + BitLen(n \div 2)

DoubleCmp(X, D) == DoubleBits(X % D, D, BitLen(X \div D), (X \div D) % 2)

(* Number.prototype.toFixed(f): n / 10^f with n the integer nearest to     *)
(* x * 10^f, the larger n when two are as near.  x is the double, so a     *)
(* decimal tie is decided by the side of the tie the double lies on.       *)
ToFixed(x, f) ==
    LET a == Abs(x.m)
        D == Pow10(x.e - f)
        lo == a \div D
        r == a % D
        n == IF x.e <= f THEN a * Pow10(f - x.e)
             ELSE IF 2 * r > D THEN lo + 1
             ELSE IF 2 * r < D THEN lo
             ELSE IF DoubleCmp(a, Pow10(x.e)) >= 0 THEN lo + 1 ELSE lo
    IN  (IF x.m < 0 THEN <<"-">> ELSE <<>>)
        \o NatDigits(n \div Pow10(f))
        \o (IF f = 0 THEN <<>> ELSE <<".">> \o PadDigits(n % Pow10(f), f))

-----------------------------------------------------------------------------
(* Number.prototype.toLocaleString(locale, {minimumFractionDigits: d,      *)
(* maximumFractionDigits: d}): the shortest decimal of the double, rounded *)
(* half away from zero to d fractional digits, the integer part grouped in *)
(* threes.  When arithmetic rounded the double off its decimal (x.err),    *)
(* the side it lies on decides a tie.                                      *)

GroupSep(locale) == IF locale = "ru-RU" THEN NBSP ELSE ","

DecimalSep(locale) == IF locale = "ru-RU" THEN "," ELSE "."

RECURSIVE Grouped(_, _)
Grouped(digits, sep) ==
    IF Len(digits) <= 3 THEN digits
    ELSE Grouped(SubSeq(digits, 1, Len(digits) - 3), sep)
         \o <<sep>> \o SubSeq(digits, Len(digits) - 2, Len(digits))

RECURSIVE Zeros(_)
Zeros(n) == IF n = 0 THEN <<>> ELSE Append(Zeros(n - 1), "0")

ToLocaleString(x, locale, d) ==
    LET a == Abs(x.m)
        ip == a \div Pow10(x.e)
        fp == a % Pow10(x.e)
        D == Pow10(x.e - d)
        r == fp % D
        up == x.e > d /\ (2 * r > D \/ (2 * r = D /\ x.err >= 0))
        fr == IF x.e <= d THEN fp ELSE (fp \div D) + (IF up THEN 1 ELSE 0)
        w == IF x.e <= d THEN x.e ELSE d
        carry == fr = Pow10(w)
        int == IF carry THEN ip + 1 ELSE ip
        frac == PadDigits(IF carry THEN 0 ELSE fr, w) \o Zeros(d - w)
    IN  (IF x.m < 0 THEN <<"-">> ELSE <<>>)
        \o Grouped(NatDigits(int), GroupSep(locale))
        \o (IF d = 0 THEN <<>> ELSE <<DecimalSep(locale)>> \o frac)

-----------------------------------------------------------------------------
(* String.prototype.replace(pattern, replacement) with a string pattern:   *)
(* the first occurrence only.                                              *)

OccursAt(s, pat, i) ==
    /\ i + Len(pat) - 1 <= Len(s)
    /\ \A j \in 1..Len(pat) : s[i + j - 1] = pat[j]

Replace(s, pat, rep) ==
    IF \E i \in 1..Len(s) : OccursAt(s, pat, i)
    THEN LET i == CHOOSE k \in 1..Len(s) :
                     /\ OccursAt(s, pat, k)
                     /\ \A j \in 1..(k - 1) : ~OccursAt(s, pat, j)
         IN  SubSeq(s, 1, i - 1) \o rep \o SubSeq(s, i + Len(pat), Len(s))
    ELSE s

(* parseFloat: the longest prefix that is a decimal literal (digits, then  *)
(* optionally "." and digits; or "." and digits), NaN when there is none.  *)
NaN == [nan |-> TRUE]

isNaN(v) == "nan" \in DOMAIN v

RECURSIVE DigitRun(_, _)
DigitRun(s, i) ==
    IF i <= Len(s) /\ IsDigit(s[i]) THEN 1 + DigitRun(s, i + 1) ELSE 0

parseFloat(s) ==
    LET a == DigitRun(s, 1)
        dot == a + 1 <= Len(s) /\ s[a + 1] = "."
        b == IF dot THEN DigitRun(s, a + 2) ELSE 0
    IN  IF a = 0 /\ b = 0 THEN NaN
        ELSE Num(DigitsNat(SubSeq(s, 1, a) \o SubSeq(s, a + 2, a + 1 + b)), b)

-----------------------------------------------------------------------------
(* currencyUtils.ts.  A function returns [line, value]: the line of the    *)
(* return statement it left by, and what it returned.                      *)

USD_TO_RUB_RATE == 90

DefaultDecimals == 2

\* The decimals argument as the caller passes it: <<d>>, or <<>> to omit it
Omitted == <<>>

Decimals(decimals) ==
    IF decimals = Omitted THEN DefaultDecimals ELSE decimals[1]

Ret(line, value) == [line |-> line, value |-> value]

\* err: the side the double product falls on when it is not the decimal one
convertUsdToRub(usdAmount, err) ==
    Ret(15, [m |-> usdAmount.m * USD_TO_RUB_RATE,
             e |-> usdAmount.e,
             err |-> IF Exact(usdAmount) THEN 0 ELSE err])

formatRubles(amount, decimals) ==
    LET formatted == ToLocaleString(amount, "ru-RU", Decimals(decimals))
    IN  Ret(29, formatted \o <<" ", RUBLE>>)

\* the dollar sign put after the numeral, as the ruble sign is
formatDollars_Suffix(amount, decimals) ==
    LET formatted == ToLocaleString(amount, "en-US", Decimals(decimals))
    IN  Ret(54, formatted \o <<"$">>)

formatDollars(amount, decimals) ==
    LET formatted == ToLocaleString(amount, "en-US", Decimals(decimals))
    IN  Ret(54, <<"$">> \o formatted)

\* the converted amount formatted with the dollar formatter
formatUsdAsRubles_AsDollars(usdAmount, decimals, err) ==
    LET rubAmount == convertUsdToRub(usdAmount, err).value
    IN  Ret(40, formatDollars(rubAmount, decimals).value)

formatUsdAsRubles(usdAmount, decimals, err) ==
    LET rubAmount == convertUsdToRub(usdAmount, err).value
    IN  Ret(40, formatRubles(rubAmount, decimals).value)

\* the pattern without its closing anchor: /^\$[0-9]+\.?[0-9]*/
isDollarPrice_Unanchored(priceString) ==
    Ret(63, /\ Len(priceString) >= 2
            /\ priceString[1] = "$"
            /\ IsDigit(priceString[2]))

\* /^\$[0-9]+\.?[0-9]*$/ : a digits, b dots, c digits after the "$"
isDollarPrice(priceString) ==
    Ret(63, \E a \in 1..Len(priceString), b \in 0..1, c \in 0..Len(priceString) :
                /\ 1 + a + b + c = Len(priceString)
                /\ priceString[1] = "$"
                /\ \A i \in 2..(a + 1) : IsDigit(priceString[i])
                /\ b = 1 => priceString[a + 2] = "."
                /\ \A i \in (a + b + 2)..Len(priceString) : IsDigit(priceString[i]))

\* the converter without its isDollarPrice guard
convertDollarStringToRubles_Unguarded(priceString, err) ==
    LET numericValue == parseFloat(Replace(priceString, <<"$">>, <<>>))
    IN  IF isNaN(numericValue) THEN Ret(78, priceString)
        ELSE Ret(81, formatUsdAsRubles(numericValue, Omitted, err).value)

convertDollarStringToRubles(priceString, err) ==
    IF ~isDollarPrice(priceString).value THEN Ret(73, priceString)
    ELSE LET numericValue == parseFloat(Replace(priceString, <<"$">>, <<>>))
         IN  IF isNaN(numericValue) THEN Ret(78, priceString)
             ELSE Ret(81, formatUsdAsRubles(numericValue, Omitted, err).value)

-----------------------------------------------------------------------------
(* value_formatters.tsx *)

\* the plain branch fixed to two decimals like the "M" branch
valueFormatter_FixedPlain(number) ==
    IF Geq(number, 1000000)
    THEN Ret(3, ToFixed(Div(number, 6), 2) \o <<"M">>)
    ELSE IF Geq(number, 1000)
    THEN Ret(6, NumberToString(Div(number, 3)) \o <<"k">>)
    ELSE Ret(8, ToFixed(number, 2))

\* the "k" branch fixed to two decimals like the "M" branch
valueFormatter_FixedK(number) ==
    IF Geq(number, 1000000)
    THEN Ret(3, ToFixed(Div(number, 6), 2) \o <<"M">>)
    ELSE IF Geq(number, 1000)
    THEN Ret(6, ToFixed(Div(number, 3), 2) \o <<"k">>)
    ELSE Ret(8, NumberToString(number))

\* the thresholds tested smallest first
valueFormatter_ThousandFirst(number) ==
    IF Geq(number, 1000)
    THEN Ret(6, NumberToString(Div(number, 3)) \o <<"k">>)
    ELSE IF Geq(number, 1000000)
    THEN Ret(3, ToFixed(Div(number, 6), 2) \o <<"M">>)
    ELSE Ret(8, NumberToString(number))

valueFormatter(number) ==
    IF Geq(number, 1000000)
    THEN Ret(3, ToFixed(Div(number, 6), 2) \o <<"M">>)
    ELSE IF Geq(number, 1000)
    THEN Ret(6, NumberToString(Div(number, 3)) \o <<"k">>)
    ELSE Ret(8, NumberToString(number))

\* the scale picked from the converted amount instead of the input
valueFormatterSpend_ConvertFirst(number, err) ==
    LET rub == [number EXCEPT !.m = @ * USD_TO_RUB_RATE]
    IN  IF IsZero(number) THEN Ret(14, <<"0", " ", RUBLE>>)
        ELSE IF Geq(rub, 1000000)
        THEN LET rubValue == formatUsdAsRubles(Div(number, 6), <<0>>, err).value
             IN  Ret(17, Replace(rubValue, <<" ", RUBLE>>, <<"M", " ", RUBLE>>))
        ELSE IF Geq(rub, 1000)
        THEN LET rubValue == formatUsdAsRubles(Div(number, 3), <<0>>, err).value
             IN  Ret(21, Replace(rubValue, <<" ", RUBLE>>, <<"k", " ", RUBLE>>))
        ELSE Ret(23, formatUsdAsRubles(number, <<0>>, err).value)

\* the formatter without its zero case
valueFormatterSpend_NoZeroCase(number, err) ==
    IF Geq(number, 1000000)
    THEN LET rubValue == formatUsdAsRubles(Div(number, 6), <<0>>, err).value
         IN  Ret(17, Replace(rubValue, <<" ", RUBLE>>, <<"M", " ", RUBLE>>))
    ELSE IF Geq(number, 1000)
    THEN LET rubValue == formatUsdAsRubles(Div(number, 3), <<0>>, err).value
         IN  Ret(21, Replace(rubValue, <<" ", RUBLE>>, <<"k", " ", RUBLE>>))
    ELSE Ret(23, formatUsdAsRubles(number, <<0>>, err).value)

valueFormatterSpend(number, err) ==
    IF IsZero(number) THEN Ret(14, <<"0", " ", RUBLE>>)
    ELSE IF Geq(number, 1000000)
    THEN LET rubValue == formatUsdAsRubles(Div(number, 6), <<0>>, err).value
         IN  Ret(17, Replace(rubValue, <<" ", RUBLE>>, <<"M", " ", RUBLE>>))
    ELSE IF Geq(number, 1000)
    THEN LET rubValue == formatUsdAsRubles(Div(number, 3), <<0>>, err).value
         IN  Ret(21, Replace(rubValue, <<" ", RUBLE>>, <<"k", " ", RUBLE>>))
    ELSE Ret(23, formatUsdAsRubles(number, <<0>>, err).value)

-----------------------------------------------------------------------------
(* The callers' arguments *)

Alphabet == {"$", "0", "1", "5", ".", "-"}

\* the token the documentation converts, "$10.50", and the spec's "abc"
DocumentedTokens == {<<"$", "1", "0", ".", "5", "0">>, <<"a", "b", "c">>}

Strings ==
    DocumentedTokens \cup UNION {[1..n -> Alphabet] : n \in 0..MaxLen}

Steps == {1, 1000, 25000, 125000}

Offsets == {-1, 0, 1, 5, 25}

\* the amount the spec formats, 1234.5
DocumentedAmounts == {Num(12345, 1)}

\* doubles that are short decimals, written without trailing zeros
Amounts ==
    DocumentedAmounts \cup
    {x \in {Num(k * s + o, e) : k \in 0..MaxMant, s \in Steps,
                                o \in Offsets, e \in 0..MaxScale} :
        Exact(x) /\ Norm(x) = x}

DecimalsArgs == {Omitted} \cup {<<d>> : d \in 0..MaxDecimals}

None == "none"

Init ==
    /\ \/ kind = "str" /\ str \in Strings /\ num = None
       \/ kind = "num" /\ num \in Amounts /\ str = None
    /\ dec = Omitted
    /\ pc = "start"
    /\ result = None
    /\ prev = None

Return(name, r) ==
    /\ pc' = name
    /\ result' = r
    /\ prev' = result
    /\ UNCHANGED <<kind, str, num>>

IsDollarPrice ==
    /\ pc = "start" /\ kind = "str"
    /\ Return("isDollarPrice", isDollarPrice(str))
    /\ UNCHANGED dec

ConvertDollarStringToRubles ==
    /\ pc = "start" /\ kind = "str"
    /\ \E err \in Errs :
          Return("convertDollarStringToRubles",
                 convertDollarStringToRubles(str, err))
    /\ UNCHANGED dec

\* the caller passes the converted token through the converter again
ConvertAgain ==
    /\ pc = "convertDollarStringToRubles"
    /\ \E err \in Errs :
          Return("convertAgain", convertDollarStringToRubles(result.value, err))
    /\ UNCHANGED dec

ValueFormatter ==
    /\ pc = "start" /\ kind = "num"
    /\ Return("valueFormatter", valueFormatter(num))
    /\ UNCHANGED dec

ValueFormatterSpend ==
    /\ pc = "start" /\ kind = "num"
    /\ \E err \in Errs :
          Return("valueFormatterSpend", valueFormatterSpend(num, err))
    /\ UNCHANGED dec

ConvertUsdToRub ==
    /\ pc = "start" /\ kind = "num"
    /\ \E err \in Errs : Return("convertUsdToRub", convertUsdToRub(num, err))
    /\ UNCHANGED dec

FormatRubles ==
    /\ pc = "start" /\ kind = "num"
    /\ \E d \in DecimalsArgs :
          /\ dec' = d
          /\ Return("formatRubles", formatRubles(num, d))

FormatDollars ==
    /\ pc = "start" /\ kind = "num"
    /\ \E d \in DecimalsArgs :
          /\ dec' = d
          /\ Return("formatDollars", formatDollars(num, d))

FormatUsdAsRubles ==
    /\ pc = "start" /\ kind = "num"
    /\ \E d \in DecimalsArgs, err \in Errs :
          /\ dec' = d
          /\ Return("formatUsdAsRubles", formatUsdAsRubles(num, d, err))

Next ==
    \/ IsDollarPrice
    \/ ConvertDollarStringToRubles
    \/ ConvertAgain
    \/ ValueFormatter
    \/ ValueFormatterSpend
    \/ ConvertUsdToRub
    \/ FormatRubles
    \/ FormatDollars
    \/ FormatUsdAsRubles

Spec == Init /\ [][Next]_vars

-----------------------------------------------------------------------------
(* What the claims read off a returned string *)

Last(s) == s[Len(s)]

Front(s) == SubSeq(s, 1, Len(s) - 1)

EndsWith(s, suffix) ==
    /\ Len(s) >= Len(suffix)
    /\ SubSeq(s, Len(s) - Len(suffix) + 1, Len(s)) = suffix

DropLast(s, n) == SubSeq(s, 1, Len(s) - n)

\* N is an integer nearest to a / 10^k
Nearest(N, a, k) ==
    LET D == Pow10(k)
        lo == a \div D
        r == a % D
    IN  \/ N = lo /\ 2 * r <= D
        \/ N = lo + 1 /\ 2 * r >= D

\* ip is a run of digits cut into groups of three from the right by gsep
IsGrouped(ip, gsep) ==
    /\ Len(ip) >= 1
    /\ Len(ip) % 4 # 0
    /\ \A i \in 1..Len(ip) :
          IF (Len(ip) - i + 1) % 4 = 0 THEN ip[i] = gsep ELSE IsDigit(ip[i])
    /\ Len(ip) > 1 => ip[1] # "0"

(* t is the numeral of the number x in a locale with grouping separator    *)
(* gsep and decimal separator dsep, showing exactly d fractional digits:   *)
(* a "-" exactly for a negative x, a grouped integer part, then dsep and d *)
(* digits when d > 0, and the value shown is x to the nearest 10^-d.       *)
IsLocaleNumeral(t, x, d, gsep, dsep) ==
    LET neg == x.m < 0
        u == IF neg THEN SubSeq(t, 2, Len(t)) ELSE t
        ip == IF d = 0 THEN u ELSE DropLast(u, d + 1)
        fp == SubSeq(u, Len(u) - d + 1, Len(u))
        a == Abs(x.m)
        shown == SelectSeq(ip, IsDigit) \o fp
    IN  /\ neg => Len(t) >= 1 /\ t[1] = "-"
        /\ Len(u) >= d + 1
        /\ d > 0 => Len(u) >= d + 2 /\ u[Len(u) - d] = dsep
        /\ IsGrouped(ip, gsep)
        /\ \A i \in 1..Len(fp) : IsDigit(fp[i])
        /\ IF d >= x.e
           THEN /\ DigitsNat(SelectSeq(ip, IsDigit)) = a \div Pow10(x.e)
                /\ fp = PadDigits(a % Pow10(x.e), x.e) \o Zeros(d - x.e)
           ELSE Nearest(DigitsNat(shown), a, x.e - d)

\* s is digits, optionally followed by "." and digits
IsPlainDecimal(s) ==
    LET a == DigitRun(s, 1)
        dot == a + 1 <= Len(s) /\ s[a + 1] = "."
        b == IF dot THEN DigitRun(s, a + 2) ELSE 0
    IN  /\ a >= 1
        /\ dot => b >= 1
        /\ Len(s) = a + (IF dot THEN 1 + b ELSE 0)

-----------------------------------------------------------------------------
(* C1: a token that isDollarPrice rejects comes back from                  *)
(* convertDollarStringToRubles exactly as it went in, by the early return  *)
(* and not by an error, and passing the returned token through the         *)
(* converter once more gives the same token again.                         *)
C1_NonMatchingUnchanged ==
    (kind = "str" /\ ~isDollarPrice(str).value) =>
        /\ pc = "convertDollarStringToRubles" =>
              result.line = 73 /\ result.value = str
        /\ pc = "convertAgain" =>
              result.line = 73 /\ result.value = str /\ prev.value = str

C1_Witness ==
    /\ pc = "convertAgain"
    /\ str = <<"a", "b", "c">>
    /\ ~isDollarPrice(str).value
    /\ prev.value = <<"a", "b", "c">>
    /\ result.value = <<"a", "b", "c">>

(* C2: a token that isDollarPrice accepts is never returned by the         *)
(* parse-failure fallback; it is returned as formatRubles(n * 90, 2) for   *)
(* the number n after the "$", and "$10.50" comes back as "945.00 ₽".      *)
C2_MatchingConverted ==
    (pc = "convertDollarStringToRubles" /\ isDollarPrice(str).value) =>
        LET n == parseFloat(SubSeq(str, 2, Len(str)))
        IN  /\ result.line = 81
            /\ IsLocaleNumeral(DropLast(result.value, 2), Num(n.m * 90, n.e),
                               2, NBSP, ",")
            /\ EndsWith(result.value, <<" ", RUBLE>>)
            /\ str = <<"$", "1", "0", ".", "5", "0">> =>
                  result.value = <<"9", "4", "5", ".", "0", "0", " ", RUBLE>>

(* C3, as claimed: isDollarPrice accepts exactly "$", one or more digits,   *)
(* and optionally a "." with one or more digits after it; so not "$10.".   *)
StrictDollarPattern(s) ==
    \E a \in 1..(Len(s) - 1) :
        /\ s[1] = "$"
        /\ \A i \in 2..(a + 1) : IsDigit(s[i])
        /\ \/ Len(s) = a + 1
           \/ /\ Len(s) >= a + 3
              /\ s[a + 2] = "."
              /\ \A i \in (a + 3)..Len(s) : IsDigit(s[i])

C3_StrictPattern ==
    pc = "isDollarPrice" => (result.value <=> StrictDollarPattern(str))

(* C3, amended: isDollarPrice accepts exactly the strings that start with  *)
(* "$" and a digit and go on with digits and at most one ".", which may be *)
(* the last character ("$10." is accepted); every other string is         *)
(* rejected.                                                               *)
C3_DollarPattern ==
    pc = "isDollarPrice" =>
        (result.value <=>
            /\ Len(str) >= 2
            /\ str[1] = "$"
            /\ IsDigit(str[2])
            /\ \A i \in 3..Len(str) : IsDigit(str[i]) \/ str[i] = "."
            /\ Cardinality({i \in 1..Len(str) : str[i] = "."}) <= 1)

C3_Witness ==
    /\ pc = "isDollarPrice"
    /\ str = <<"$", "1", "0", ".">>
    /\ result.value = TRUE

(* C10: converting a token twice gives what converting it once gives, for  *)
(* every token: what the converter returns for an accepted token is not    *)
(* itself accepted by isDollarPrice.                                       *)
C10_Idempotent ==
    /\ pc = "convertAgain" => result.value = prev.value
    /\ (pc = "convertDollarStringToRubles" /\ result.line = 81) =>
          ~isDollarPrice(result.value).value

C10_Witness ==
    /\ pc = "convertAgain"
    /\ isDollarPrice(str).value
    /\ prev.line = 81
    /\ result.line = 73
    /\ result.value # str

(* C4: for 0 <= x < 1000 valueFormatter(x) is x.toString(): a plain        *)
(* decimal that reads back as x, with no magnitude suffix.                 *)
C4_PlainBelowThousand ==
    (pc = "valueFormatter" /\ Geq(num, 0) /\ ~Geq(num, 1000)) =>
        /\ result.line = 8
        /\ result.value = NumberToString(num)
        /\ IsPlainDecimal(result.value)
        /\ parseFloat(result.value) = num

C4_Witness ==
    /\ pc = "valueFormatter"
    /\ num = Num(9005, 1)
    /\ result.value = <<"9", "0", "0", ".", "5">>

(* C5: for 1000 <= x < 1000000 valueFormatter(x) ends with "k" and the     *)
(* text before it is the numeral of x / 1000: the exact quotient without   *)
(* trailing zeros, with at most three fractional digits for an integer x,  *)
(* "1k" for 1000 and "999.999k" for 999999.                                *)
C5_ThousandsSuffix ==
    (pc = "valueFormatter" /\ Geq(num, 1000) /\ ~Geq(num, 1000000)) =>
        LET prefix == Front(result.value)
            q == parseFloat(prefix)
        IN  /\ result.line = 6
            /\ Last(result.value) = "k"
            /\ IsPlainDecimal(prefix)
            /\ q = Norm(Div(num, 3))
            /\ num.e = 0 => q.e <= 3
            /\ num = Num(1000, 0) => prefix = <<"1">>

C5_Witness ==
    /\ pc = "valueFormatter"
    /\ num = Num(999999, 0)
    /\ result.value = <<"9", "9", "9", ".", "9", "9", "9", "k">>

C7_SpendSuffix ==
    (pc = "valueFormatterSpend" /\ ~IsZero(num)) =>
        LET big == Geq(num, 1000000)
            mid == ~big /\ Geq(num, 1000)
            k == IF big THEN 6 ELSE IF mid THEN 3 ELSE 0
            suffix == IF big THEN <<"M">> ELSE IF mid THEN <<"k">> ELSE <<>>
            tail == suffix \o <<" ", RUBLE>>
        IN  /\ result.line = (IF big THEN 17 ELSE IF mid THEN 21 ELSE 23)
            /\ EndsWith(result.value, tail)
            /\ IsLocaleNumeral(DropLast(result.value, Len(tail)),
                               Num(num.m * 90, num.e + k), 0, NBSP, ",")

C7_Witness ==
    /\ pc = "valueFormatterSpend"
    /\ num = Num(5000000, 0)
    /\ result.value = <<"4", "5", "0", "M", " ", RUBLE>>

(* C8: valueFormatterSpend(0) returns the literal "0 ₽" by its first       *)
(* return, before any conversion or formatting, and no other input leaves  *)
(* by that return.                                                         *)
C8_ZeroLiteral ==
    pc = "valueFormatterSpend" =>
        /\ result.line = 14 <=> IsZero(num)
        /\ IsZero(num) => result.value = <<"0", " ", RUBLE>>

C8_Witness ==
    /\ pc = "valueFormatterSpend"
    /\ num = Num(0, 0)
    /\ result = Ret(14, <<"0", " ", RUBLE>>)

=============================================================================
